---------------------------- MODULE Spec2Model ----------------------------
(***************************************************************************)
(* Model of src/app.py: the four-stage pipeline of main (Discover, Detail, *)
(* Review, Recommend), the LLM client get_openrouter_response and the      *)
(* parsing each stage applies to the reply text.                           *)
(*                                                                         *)
(* Text is a sequence of atoms.  An atom is one character, except for the  *)
(* ligatures "http", "://" and "null", which stand for the character runs  *)
(* of the same spelling and never occur split.  SP is the space character  *)
(* and QT the double quote.                                                *)
(*                                                                         *)
(* A decoded JSON value (a Python object) is a record                      *)
(*   [k |-> kind, s |-> atoms, items |-> sequence of values]               *)
(* with kind "str" (s is the content), "num" (s is the digits), "null",    *)
(* "list" (items are the elements) or "obj" (items alternate key, value).  *)
(***************************************************************************)
EXTENDS Integers, Sequences, FiniteSets, TLC

SP == "SP"
QT == "QT"

\* ---------------------------------------------------------------- bounds
MaxListLen == 12   \* longest URL list / URL-bearing text an LLM reply carries
MaxRecords == 52   \* longest record list an LLM reply carries
MaxRawLen  == 3    \* longest reply enumerated atom by atom

\* ------------------------------------------------------ program constants
UrlCap    == 10
RecordCap == 50

\* ------------------------------------------------------------ Python values
StrVal(s)    == [k |-> "str",  s |-> s,    items |-> <<>>]
NumVal(s)    == [k |-> "num",  s |-> s,    items |-> <<>>]
NullVal      == [k |-> "null", s |-> <<>>, items |-> <<>>]
ListVal(xs)  == [k |-> "list", s |-> <<>>, items |-> xs]
ObjVal(kvs)  == [k |-> "obj",  s |-> <<>>, items |-> kvs]

\* Optional text: Python's None versus a str.
None       == [some |-> FALSE, text |-> <<>>]
Some(t)    == [some |-> TRUE,  text |-> t]

Min(a, b) == IF a < b THEN a ELSE b

Take(xs, n) == SubSeq(xs, 1, Min(n, Len(xs)))

RECURSIVE Flatten(_)
Flatten(ss) == IF ss = <<>> THEN <<>> ELSE Head(ss) \o Flatten(Tail(ss))

\* ------------------------------------------------------------- json.loads
IsWs(c) == c = SP

RECURSIVE SkipWs(_, _)
SkipWs(t, i) == IF i <= Len(t) /\ IsWs(t[i]) THEN SkipWs(t, i + 1) ELSE i

At(t, i) == IF i >= 1 /\ i <= Len(t) THEN t[i] ELSE "EOF"

Fail == [ok |-> FALSE, val |-> NullVal, next |-> 0]
Ok(v, n) == [ok |-> TRUE, val |-> v, next |-> n]

\* index of the first QT at or after i, or 0
RECURSIVE FindQuote(_, _)
FindQuote(t, i) ==
  IF i > Len(t) THEN 0 ELSE IF t[i] = QT THEN i ELSE FindQuote(t, i + 1)

RECURSIVE DigitsEnd(_, _)
DigitsEnd(t, i) == IF At(t, i) = "1" THEN DigitsEnd(t, i + 1) ELSE i

ParseString(t, i) ==
  LET j == FindQuote(t, i + 1)
  IN  IF j = 0 THEN Fail ELSE Ok(StrVal(SubSeq(t, i + 1, j - 1)), j + 1)

ParseNumber(t, i) ==
  LET j == DigitsEnd(t, i) IN Ok(NumVal(SubSeq(t, i, j - 1)), j)

RECURSIVE ParseValue(_, _)
RECURSIVE ParseElems(_, _, _)
RECURSIVE ParseMembers(_, _, _)

\* scan_once at position i (no leading whitespace is skipped here)
ParseValue(t, i) ==
  LET c == At(t, i)
  IN  CASE c = QT     -> ParseString(t, i)
        [] c = "1"    -> ParseNumber(t, i)
        [] c = "null" -> Ok(NullVal, i + 1)
        [] c = "["    ->
             LET j == SkipWs(t, i + 1)
             IN  IF At(t, j) = "]" THEN Ok(ListVal(<<>>), j + 1)
                 ELSE ParseElems(t, j, <<>>)
        [] c = "{"    ->
             LET j == SkipWs(t, i + 1)
             IN  IF At(t, j) = "}" THEN Ok(ObjVal(<<>>), j + 1)
                 ELSE ParseMembers(t, j, <<>>)
        [] OTHER      -> Fail

ParseElems(t, i, acc) ==
  LET r == ParseValue(t, i)
  IN  IF ~r.ok THEN Fail
      ELSE LET j == SkipWs(t, r.next)
               acc2 == Append(acc, r.val)
           IN  CASE At(t, j) = "]" -> Ok(ListVal(acc2), j + 1)
                 [] At(t, j) = "," -> ParseElems(t, SkipWs(t, j + 1), acc2)
                 [] OTHER          -> Fail

ParseMembers(t, i, acc) ==
  IF At(t, i) # QT THEN Fail
  ELSE LET key == ParseString(t, i)
       IN  IF ~key.ok THEN Fail
           ELSE LET j == SkipWs(t, key.next)
                IN  IF At(t, j) # ":" THEN Fail
                    ELSE LET r == ParseValue(t, SkipWs(t, j + 1))
                         IN  IF ~r.ok THEN Fail
                             ELSE LET m == SkipWs(t, r.next)
                                      acc2 == acc \o <<key.val, r.val>>
                                  IN  CASE At(t, m) = "}" -> Ok(ObjVal(acc2), m + 1)
                                        [] At(t, m) = "," ->
                                             ParseMembers(t, SkipWs(t, m + 1), acc2)
                                        [] OTHER -> Fail

\* json.loads(text): ok = FALSE stands for json.JSONDecodeError
JsonLoads(t) ==
  LET r == ParseValue(t, SkipWs(t, 1))
  IN  IF ~r.ok THEN Fail
      ELSE IF SkipWs(t, r.next) # Len(t) + 1 THEN Fail
      ELSE r

\* ------------------------------------------------------------- json.dumps
RECURSIVE JsonDumps(_)
RECURSIVE DumpItems(_, _)
JsonDumps(v) ==
  CASE v.k = "str"  -> <<QT>> \o v.s \o <<QT>>
    [] v.k = "num"  -> v.s
    [] v.k = "null" -> <<"null">>
    [] v.k = "list" -> <<"[">> \o DumpItems(v.items, FALSE) \o <<"]">>
    [] v.k = "obj"  -> <<"{">> \o DumpItems(v.items, TRUE) \o <<"}">>

\* items joined by ", "; in an object a key is joined to its value by ": "
DumpItems(xs, isObj) ==
  IF xs = <<>> THEN <<>>
  ELSE IF isObj
       THEN JsonDumps(xs[1]) \o <<":", SP>> \o JsonDumps(xs[2])
            \o (IF Len(xs) > 2 THEN <<",", SP>> ELSE <<>>)
            \o DumpItems(SubSeq(xs, 3, Len(xs)), TRUE)
       ELSE JsonDumps(xs[1])
            \o (IF Len(xs) > 1 THEN <<",", SP>> ELSE <<>>)
            \o DumpItems(Tail(xs), FALSE)

\* ------------------------------------------- re.findall(r'https?://[^\s"]+')
\* mutant: the pattern excludes whitespace only
IsUrlCharNoQuote(c) == c # SP

IsUrlChar(c) == c # SP /\ c # QT

RECURSIVE RunEnd(_, _)
RunEnd(t, i) == IF i <= Len(t) /\ IsUrlChar(t[i]) THEN RunEnd(t, i + 1) ELSE i

\* end (exclusive) of the match starting at i, or 0 when there is none
MatchUrlAt(t, i) ==
  IF At(t, i) # "http" THEN 0
  ELSE LET j == IF At(t, i + 1) = "s" THEN i + 2 ELSE i + 1
       IN  IF At(t, j) # "://" THEN 0
           ELSE LET e == RunEnd(t, j + 1)
                IN  IF e = j + 1 THEN 0 ELSE e

RECURSIVE FindAllFrom(_, _)
FindAllFrom(t, i) ==
  IF i > Len(t) THEN <<>>
  ELSE LET e == MatchUrlAt(t, i)
       IN  IF e = 0 THEN FindAllFrom(t, i + 1)
           ELSE <<SubSeq(t, i, e - 1)>> \o FindAllFrom(t, e)

FindAllUrls(t) == FindAllFrom(t, 1)


\* --------------------------------------------------------------- LLM client
\* What the endpoint does with one request: a transport error, or a status
\* and a body whose choices[0].message.content is present or not.
HttpFail(why) == [net |-> why,  status |-> 0,   hasContent |-> FALSE, content |-> <<>>]
HttpStatus(n) == [net |-> "ok", status |-> n,   hasContent |-> FALSE, content |-> <<>>]
HttpBad       == [net |-> "ok", status |-> 200, hasContent |-> FALSE, content |-> <<>>]
HttpOk(t)     == [net |-> "ok", status |-> 200, hasContent |-> TRUE,  content |-> t]

\* requests.post raises / raise_for_status raises / the subscript raises:
\* each is caught and None is returned
get_openrouter_response(r) ==
  IF r.net # "ok" THEN None
  ELSE IF r.status >= 400 THEN None
  ELSE IF ~r.hasContent THEN None
  ELSE Some(r.content)

\* mutant: a second request is posted after each request
PostWithRetry(log, prompt) == Append(Append(log, prompt), prompt)

\* one requests.post per call of get_openrouter_response
Post(log, prompt) == Append(log, prompt)

\* -------------------------------------------------------------------- prompts
Prompt(stage, embed) == [stage |-> stage, embed |-> embed]

DiscoverPrompt(name) == Prompt("discover", name)
UrlsValue(us) == ListVal([i \in 1..Len(us) |-> StrVal(us[i])])
DetailPrompt(us) == Prompt("detail", JsonDumps(UrlsValue(us)))
ReviewPrompt(us) == Prompt("review", JsonDumps(UrlsValue(us)))
RecommendPrompt(product_data) == Prompt("recommend", JsonDumps(product_data))

\* -------------------------------------------------------- str.strip / truth
RECURSIVE StripRight(_)
StripRight(t) ==
  IF t # <<>> /\ IsWs(t[Len(t)]) THEN StripRight(SubSeq(t, 1, Len(t) - 1)) ELSE t

Strip(t) == StripRight(SubSeq(t, SkipWs(t, 1), Len(t)))

\* truth value of an optional str: None and "" are false
Truthy(o) == o.some /\ o.text # <<>>

\* ----------------------------------------------------- search_related_products
StartsWithHttp(s) == Len(s) >= 1 /\ s[1] = "http"

IsUrlString(v) == v.k = "str" /\ StartsWithHttp(v.s)

\* mutant: the references are built back to front
WrapUrlsReversed(us) == [i \in 1..Len(us) |-> [url |-> us[Len(us) + 1 - i]]]

WrapUrls(us) == [i \in 1..Len(us) |-> [url |-> us[i]]]

\* mutant: the slice is taken of the filtered list
AcceptedUrlsFilterFirst(items) ==
  LET kept == Take(SelectSeq(items, IsUrlString), UrlCap)
  IN  WrapUrls([i \in 1..Len(kept) |-> kept[i].s])

\* [{"url": url} for url in parsed_urls[:10] if isinstance(url, str) and ...]
AcceptedUrls(items) ==
  LET kept == SelectSeq(Take(items, UrlCap), IsUrlString)
  IN  WrapUrls([i \in 1..Len(kept) |-> kept[i].s])

\* mutant: a value that is not a list is scanned for URLs
NonListResultScan(text) == WrapUrls(Take(FindAllUrls(text), UrlCap))

\* the branch taken when json.loads returned a value that is not a list
NonListResult(text) == <<>>

\* the except json.JSONDecodeError branch
FallbackUrls(text) ==
  LET found == FindAllUrls(text)
  IN  IF found # <<>> THEN WrapUrls(Take(found, UrlCap)) ELSE <<>>

ParseUrlList(response) ==
  IF ~response.some THEN <<>>
  ELSE IF Strip(response.text) = <<>> THEN <<>>
  ELSE LET r == JsonLoads(response.text)
       IN  IF r.ok
           THEN IF r.val.k = "list" THEN AcceptedUrls(r.val.items)
                ELSE NonListResult(response.text)
           ELSE FallbackUrls(response.text)

search_related_products(r) == ParseUrlList(get_openrouter_response(r))

\* --------------------------------- get_product_details / get_product_reviews
EmptyList == ListVal(<<>>)

\* mutant: the slice is not taken
SliceUncapped(v, n) ==
  CASE v.k = "list" -> [ok |-> TRUE,  val |-> v]
    [] v.k = "str"  -> [ok |-> TRUE,  val |-> v]
    [] OTHER        -> [ok |-> FALSE, val |-> NullVal]

\* value[:n]; ok = FALSE stands for the TypeError (KeyError for a dict on
\* recent interpreters) of slicing a value that is not a sequence.  A str is
\* cut by atoms: every str of the model is shorter than RecordCap characters.
Slice(v, n) ==
  CASE v.k = "list" -> [ok |-> TRUE,  val |-> ListVal(Take(v.items, n))]
    [] v.k = "str"  -> [ok |-> TRUE,  val |-> StrVal(Take(v.s, n))]
    [] OTHER        -> [ok |-> FALSE, val |-> NullVal]

ParseRecords(response) ==
  IF Truthy(response)
  THEN LET r == JsonLoads(response.text)
       IN  IF ~r.ok THEN EmptyList
           ELSE LET c == Slice(r.val, RecordCap)
                IN  IF c.ok THEN c.val ELSE EmptyList
  ELSE EmptyList

get_product_details(r) == ParseRecords(get_openrouter_response(r))

get_product_reviews(r) == ParseRecords(get_openrouter_response(r))

\* ------------------------------------------------------ generate_recommendations
generate_recommendations(r) == get_openrouter_response(r)

\* ----------------------------------------------------------------- display
\* truth value of a Python list or str
NonEmpty(v) == v.items # <<>> \/ v.s # <<>>

\* pd.DataFrame(data) raises ValueError when data is a str
DataFrameRaises(v) == v.k = "str"

NoRecommendations == <<"No recommendations generated">>

Shown(rec) == IF Truthy(rec) THEN rec.text ELSE NoRecommendations

\* ------------------------------------------------------------------- inputs
\* the atoms of the texts enumerated atom by atom
Alphabet == {"http", "s", "://", "a", SP, QT, "[", "]", ",", "1"}

RECURSIVE TextsOfLen(_)
TextsOfLen(n) ==
  IF n = 0 THEN {<<>>}
  ELSE {Append(t, c) : t \in TextsOfLen(n - 1), c \in Alphabet}

\* every text of at most MaxRawLen atoms
RawTexts == UNION {TextsOfLen(n) : n \in 0..MaxRawLen}

Urls ==
  << <<"http", "://", "a">>,
     <<"http", "s", "://", "a", "1">>,
     <<"http", "://", "a", ":", "1">> >>

\* the i-th URL of a reply that cycles through the first p of Urls
UrlAt(i, p) == Urls[((i - 1) % p) + 1]

\* list elements that are not URLs of Urls
Defects ==
  { StrVal(<<"a">>), StrVal(<<"http", "a">>), StrVal(<<"a", "http", "://", "a">>),
    NumVal(<<"1">>), NullVal, ListVal(<<StrVal(Urls[1])>>) }

\* lists of n URLs in which the positions of D hold the defect d
UrlListWith(n, p, D, d) ==
  [i \in 1..n |-> IF i \in D THEN d ELSE StrVal(UrlAt(i, p))]

UrlLists ==
  { UrlListWith(n, p, {}, NullVal) : n \in 0..MaxListLen, p \in 1..3 }
  \cup
  { UrlListWith(x[1], x[2], {x[3], x[4]}, x[5]) :
      x \in { y \in (1..MaxListLen) \X (1..3) \X (1..MaxListLen)
                    \X (1..MaxListLen) \X Defects :
              y[3] <= y[4] /\ y[4] <= y[1] } }

JsonListTexts == { JsonDumps(ListVal(xs)) : xs \in UrlLists }

\* a JSON list cut short before its closing bracket
BrokenListTexts ==
  { SubSeq(t, 1, Len(t) - 1) : t \in { JsonDumps(ListVal(xs)) :
      xs \in { UrlListWith(n, p, {}, NullVal) : n \in 1..MaxListLen, p \in 1..3 } } }

\* prose naming n URLs, each led by lead and followed by sep
ProseTexts ==
  { Flatten([i \in 1..n |-> x[1] \o UrlAt(i, p) \o x[2]]) :
      n \in 0..MaxListLen, p \in 1..3,
      x \in { <<"a", SP>>, <<>> } \X { <<SP>>, <<",">>, <<QT, SP>>, <<>> } }

\* valid JSON that is not a list, with and without URLs in its text
NonListTexts ==
  { JsonDumps(v) : v \in
      { StrVal(Urls[1]), StrVal(<<"a">>), StrVal(<<>>), NumVal(<<"1", "1">>), NullVal,
        ObjVal(<<>>),
        ObjVal(<<StrVal(<<"a">>), StrVal(Urls[2])>>),
        ObjVal(<<StrVal(<<"a">>), ListVal(<<StrVal(Urls[1]), StrVal(Urls[2])>>)>>) } }

\* valid JSON that is not a list, cut short before its last atom
BrokenNonListTexts == { SubSeq(t, 1, Len(t) - 1) : t \in NonListTexts }

RECURSIVE Ones(_)
Ones(n) == IF n = 0 THEN <<>> ELSE <<"1">> \o Ones(n - 1)

\* the i-th record of a reply: {"a": 1...1} with i digits
RecordAt(i) == ObjVal(<<StrVal(<<"a">>), NumVal(Ones(i))>>)

RecordLists == { [i \in 1..n |-> RecordAt(i)] : n \in 0..MaxRecords }

RecordListTexts == { JsonDumps(ListVal(xs)) : xs \in RecordLists }

Failures == { HttpFail("error"), HttpStatus(404), HttpStatus(500), HttpBad }

\* what the endpoint may answer to the discovery prompt
DiscoverReplies ==
  Failures \cup
  { HttpOk(t) : t \in RawTexts \cup JsonListTexts \cup BrokenListTexts
                      \cup ProseTexts \cup NonListTexts \cup BrokenNonListTexts }

\* what the endpoint may answer to the detail and review prompts
RecordReplies ==
  Failures \cup
  { HttpOk(t) : t \in RawTexts \cup RecordListTexts \cup NonListTexts
                      \cup BrokenNonListTexts }

\* one reply of each outcome, for whole runs
RunReplies ==
  { HttpFail("error"), HttpStatus(500), HttpBad,
    HttpOk(<<>>), HttpOk(<<SP>>), HttpOk(<<"a", SP, "a">>),
    HttpOk(<<"a", SP>> \o Urls[1] \o <<SP>> \o Urls[2]),
    HttpOk(JsonDumps(StrVal(Urls[1]))),
    HttpOk(JsonDumps(ObjVal(<<StrVal(<<"a">>), StrVal(Urls[2])>>))),
    HttpOk(JsonDumps(NumVal(<<"1">>))),
    HttpOk(JsonDumps(EmptyList)),
    HttpOk(JsonDumps(ListVal(<<StrVal(<<"a">>), NumVal(<<"1">>)>>))),
    HttpOk(JsonDumps(ListVal(<<StrVal(Urls[1]), StrVal(<<"a">>), StrVal(Urls[2])>>))),
    HttpOk(JsonDumps(ListVal(<<RecordAt(1), RecordAt(2)>>))) }

RecommendReplies ==
  { HttpFail("error"), HttpOk(<<>>), HttpOk(<<"a", SP, "a">>) }

Queries == { <<>>, <<"a">> }

\* --------------------------------------------------------------------- state
VARIABLES
  pc,               \* position in main
  product_name,     \* the text input
  related_books,    \* result of search_related_products
  urls,             \* [book["url"] for book in related_books]
  book_details,     \* result of get_product_details
  reviews,          \* result of get_product_reviews
  recommendations,  \* result of generate_recommendations
  shown,            \* what the tabs display
  calls,            \* prompts posted to the endpoint, in order
  script            \* what the endpoint answers to the 1st, 2nd, ... stage

vars == <<pc, product_name, related_books, urls, book_details, reviews,
          recommendations, shown, calls, script>>

Nothing == [details |-> EmptyList, reviews |-> EmptyList, recommendation |-> <<>>]

Fresh ==
  /\ related_books = <<>>
  /\ urls = <<>>
  /\ book_details = EmptyList
  /\ reviews = EmptyList
  /\ recommendations = None
  /\ shown = Nothing
  /\ calls = <<>>

Init ==
  /\ pc = "idle"
  /\ product_name = <<>>
  /\ Fresh
  /\ script \in RunReplies \X RunReplies \X RunReplies \X RecommendReplies

\* the endpoint has an answer for stage number k
Answers(k) == k <= Len(script)

\* main, line 124: the button is pressed with a name in the text input
Analyze ==
  /\ pc = "idle"
  /\ \E name \in Queries :
       /\ name # <<>>
       /\ product_name' = name
  /\ pc' = "discover"
  /\ UNCHANGED <<related_books, urls, book_details, reviews, recommendations,
                 shown, calls, script>>

\* mutant: the empty result does not end the run
NextAfterDiscoverAlways(books) == "detail"

\* main, lines 128-130
NextAfterDiscover(books) == IF books = <<>> THEN "halted" ELSE "detail"

\* main, lines 127-132
Discover ==
  /\ pc = "discover"
  /\ Answers(1)
  /\ calls' = Post(calls, DiscoverPrompt(product_name))
  /\ related_books' = search_related_products(script[1])
  /\ pc' = NextAfterDiscover(related_books')
  /\ urls' = [i \in 1..Len(related_books') |-> related_books'[i].url]
  /\ UNCHANGED <<product_name, book_details, reviews, recommendations, shown, script>>

\* main, line 135
Detail ==
  /\ pc = "detail"
  /\ Answers(2)
  /\ calls' = Post(calls, DetailPrompt(urls))
  /\ book_details' = get_product_details(script[2])
  /\ pc' = "review"
  /\ UNCHANGED <<product_name, related_books, urls, reviews, recommendations,
                 shown, script>>

\* main, line 138
Review ==
  /\ pc = "review"
  /\ Answers(3)
  /\ calls' = Post(calls, ReviewPrompt(urls))
  /\ reviews' = get_product_reviews(script[3])
  /\ pc' = "recommend"
  /\ UNCHANGED <<product_name, related_books, urls, book_details, recommendations,
                 shown, script>>

\* mutant: the recommendation is asked of the reviews
RecommendFromReviews ==
  /\ pc = "recommend"
  /\ Answers(4)
  /\ calls' = Post(calls, RecommendPrompt(reviews))
  /\ recommendations' = generate_recommendations(script[4])
  /\ pc' = "display"
  /\ UNCHANGED <<product_name, related_books, urls, book_details, reviews,
                 shown, script>>

\* main, line 141
Recommend ==
  /\ pc = "recommend"
  /\ Answers(4)
  /\ calls' = Post(calls, RecommendPrompt(book_details))
  /\ recommendations' = generate_recommendations(script[4])
  /\ pc' = "display"
  /\ UNCHANGED <<product_name, related_books, urls, book_details, reviews,
                 shown, script>>

\* main, lines 144-168: the tabs; a DataFrame is built of each non-empty payload
Display ==
  /\ pc = "display"
  /\ IF \/ NonEmpty(book_details) /\ DataFrameRaises(book_details)
        \/ NonEmpty(reviews) /\ DataFrameRaises(reviews)
     THEN pc' = "raised" /\ shown' = shown
     ELSE /\ pc' = "completed"
          /\ shown' = [details |-> book_details, reviews |-> reviews,
                       recommendation |-> Shown(recommendations)]
  /\ UNCHANGED <<product_name, related_books, urls, book_details, reviews,
                 recommendations, calls, script>>

Next == Analyze \/ Discover \/ Detail \/ Review \/ Recommend \/ Display

\* whole runs of main, one reply of each outcome at each stage
Spec == Init /\ [][Next]_vars

\* search_related_products on every discovery reply
InitDiscover ==
  /\ pc = "discover"
  /\ product_name = <<"a">>
  /\ Fresh
  /\ script \in { <<r>> : r \in DiscoverReplies }

\* get_product_details and get_product_reviews on every record reply, after a
\* discovery that found two books; the review reply is the detail reply or a
\* body without content
InitRecords ==
  /\ pc = "discover"
  /\ product_name = <<"a">>
  /\ Fresh
  /\ script \in { <<HttpOk(JsonDumps(UrlsValue(<<Urls[1], Urls[2]>>))),
                      r, IF same THEN r ELSE HttpBad>> :
                    r \in RecordReplies, same \in BOOLEAN }

NextParse == Discover \/ Detail \/ Review

\* the three parsing stage functions, each on every reply of its family
SpecParse == (InitDiscover \/ InitRecords) /\ [][NextParse]_vars

\* ================================================================== claims
StageOrder == <<"discover", "detail", "review", "recommend">>

DiscoverDone == pc \notin {"idle", "discover"}
DetailDone   == pc \notin {"idle", "discover", "halted", "detail"}
ReviewDone   == pc \notin {"idle", "discover", "halted", "detail", "review"}

\* the reply text of stage k was delivered (the client returned a str)
Delivered(k) ==
  script[k].net = "ok" /\ script[k].status < 400 /\ script[k].hasContent

Text(k) == script[k].content

Blank(t) == \A i \in 1..Len(t) : t[i] = SP

\* stage k's reply decodes as JSON / as a JSON list
Decodes(k)     == Delivered(k) /\ JsonLoads(Text(k)).ok
DecodesList(k) == Decodes(k) /\ JsonLoads(Text(k)).val.k = "list"
Decoded(k)     == JsonLoads(Text(k)).val.items

Refs(us) == [i \in 1..Len(us) |-> [url |-> us[i]]]

HttpString(v) == v.k = "str" /\ v.s # <<>> /\ Head(v.s) = "http"

RECURSIVE KeepHttp(_)
KeepHttp(xs) ==
  IF xs = <<>> THEN <<>>
  ELSE (IF HttpString(Head(xs)) THEN <<Head(xs).s>> ELSE <<>>) \o KeepHttp(Tail(xs))

FirstN(xs, n) == [i \in 1..(IF Len(xs) < n THEN Len(xs) ELSE n) |-> xs[i]]

\* C1: when the Discover stage produces the empty list, for whatever reason,
\* the run is halted, nothing further can happen, and the only call made to
\* the LLM client is the discovery call.
C1_EmptyDiscoverHalts ==
  (DiscoverDone /\ related_books = <<>>) =>
     /\ pc = "halted"
     /\ Len(calls) = 1
     /\ calls[1].stage = "discover"
     /\ ~ENABLED Next

\* a run halted on a reply that is a JSON list without any accepted URL
C1_Witness ==
  /\ pc = "halted"
  /\ DecodesList(1)
  /\ Decoded(1) # <<>>

\* C2: no run ends otherwise than halted or completed (no exception leaves
\* main), and a Detail or Review stage whose call failed or whose reply is
\* not a JSON list leaves the empty list as its payload.
C2_StagesDegradeToEmpty ==
  /\ pc # "raised"
  /\ (DetailDone /\ ~DecodesList(2)) => book_details = EmptyList
  /\ (ReviewDone /\ ~DecodesList(3)) => reviews = EmptyList

\* C3 as claimed: on a JSON list the Discover result is the first 10 of the
\* accepted elements (filter first, then truncate).
C3_FilterThenTruncate ==
  (DiscoverDone /\ DecodesList(1)) =>
     related_books = Refs(FirstN(KeepHttp(Decoded(1)), UrlCap))

\* C3 as amended: on a JSON list the Discover result is the accepted elements
\* among the first 10 elements (truncate first, then filter).
C3_TruncateThenFilter ==
  (DiscoverDone /\ DecodesList(1)) =>
     related_books = Refs(KeepHttp(FirstN(Decoded(1), UrlCap)))

\* a list longer than 10 with a rejected element among the first 10 and an
\* accepted one beyond them has been parsed
C3_Witness ==
  /\ DiscoverDone
  /\ DecodesList(1)
  /\ Len(Decoded(1)) > UrlCap
  /\ \E i \in 1..UrlCap : ~HttpString(Decoded(1)[i])
  /\ \E i \in (UrlCap + 1)..Len(Decoded(1)) : HttpString(Decoded(1)[i])
  /\ Len(related_books) < UrlCap

\* C4 as claimed: a reply that is valid JSON but not a list is scanned for
\* URLs like a reply that fails to decode, and the first 10 matches are the
\* Discover result.
C4_NonListFallsBack ==
  (DiscoverDone /\ Decodes(1) /\ ~DecodesList(1)) =>
     related_books = Refs(FirstN(FindAllUrls(Text(1)), UrlCap))

\* C4 as amended: a reply that is valid JSON but not a list yields the empty
\* Discover result, whatever URLs its text contains, and the run halts.
C4_NonListYieldsEmpty ==
  (DiscoverDone /\ Decodes(1) /\ ~DecodesList(1)) =>
     related_books = <<>> /\ pc = "halted"

\* a JSON object whose text contains a URL has been parsed
C4_Witness ==
  /\ DiscoverDone
  /\ Decodes(1)
  /\ JsonLoads(Text(1)).val.k = "obj"
  /\ FindAllUrls(Text(1)) # <<>>

\* C5: the Detail and Review payloads are always lists, and they are the
\* empty list unless the reply decodes to a JSON list.
C5_RecordsAlwaysList ==
  /\ book_details.k = "list"
  /\ reviews.k = "list"
  /\ (DetailDone /\ ~DecodesList(2)) => book_details = EmptyList
  /\ (ReviewDone /\ ~DecodesList(3)) => reviews = EmptyList

Entries(v) == Len(v.items) + Len(v.s)

\* C6: never more than 10 references, never more than 50 details or reviews;
\* a reply that decodes to a list of n records yields its first min(n, 50)
\* records in their order.
C6_CardinalityCaps ==
  /\ Len(related_books) <= UrlCap
  /\ Entries(book_details) <= RecordCap
  /\ Entries(reviews) <= RecordCap
  /\ (DetailDone /\ DecodesList(2)) =>
        book_details = ListVal(FirstN(Decoded(2), RecordCap))
  /\ (ReviewDone /\ DecodesList(3)) =>
        reviews = ListVal(FirstN(Decoded(3), RecordCap))

\* a reply of more than 50 records has been cut to 50 by both stages
C6_Witness ==
  /\ ReviewDone
  /\ DecodesList(2) /\ Len(Decoded(2)) > RecordCap
  /\ DecodesList(3) /\ Len(Decoded(3)) > RecordCap
  /\ Len(book_details.items) = RecordCap
  /\ Len(reviews.items) = RecordCap

\* a well-formed URL: http:// or https:// and then at least one character,
\* none of them blank or a quote
WellFormedUrl(s) ==
  /\ Len(s) >= 3
  /\ s[1] = "http"
  /\ \/ s[2] = "://"
     \/ (s[2] = "s" /\ Len(s) >= 4 /\ s[3] = "://")
  /\ \A i \in 1..Len(s) : s[i] \notin {SP, QT}

UrlListReply(k) ==
  /\ DecodesList(k)
  /\ Len(Decoded(k)) <= UrlCap
  /\ \A i \in 1..Len(Decoded(k)) :
       Decoded(k)[i].k = "str" /\ WellFormedUrl(Decoded(k)[i].s)

\* C7: a reply that is a JSON list of at most 10 well-formed URLs comes back
\* as exactly that list: same length, same order, duplicates kept.
C7_UrlListRoundTrip ==
  (DiscoverDone /\ UrlListReply(1)) =>
     /\ Len(related_books) = Len(Decoded(1))
     /\ \A i \in 1..Len(Decoded(1)) : related_books[i] = [url |-> Decoded(1)[i].s]

\* a list of exactly 10 URLs with a repeated one has come back whole
C7_Witness ==
  /\ DiscoverDone
  /\ UrlListReply(1)
  /\ Len(Decoded(1)) = UrlCap
  /\ \E i, j \in 1..UrlCap : i # j /\ Decoded(1)[i] = Decoded(1)[j]
  /\ Len(related_books) = UrlCap

\* the scheme starts at i and one URL character at least follows it:
\* the index of that character, or 0
BodyStart(t, i) ==
  LET j == IF i + 1 <= Len(t) /\ t[i + 1] = "s" THEN i + 2 ELSE i + 1
  IN  IF /\ i <= Len(t) /\ t[i] = "http"
         /\ j + 1 <= Len(t) /\ t[j] = "://"
         /\ t[j + 1] \notin {SP, QT}
      THEN j + 1 ELSE 0

\* the last index of the run of URL characters that starts at b
RunLast(t, b) ==
  LET stops == { m \in b..Len(t) : t[m] \in {SP, QT} }
  IN  IF stops = {} THEN Len(t)
      ELSE (CHOOSE m \in stops : \A o \in stops : m <= o) - 1

\* the URL substrings of t from index i on, leftmost first, not overlapping
RECURSIVE UrlSubstrings(_, _)
UrlSubstrings(t, i) ==
  LET starts == { m \in i..Len(t) : BodyStart(t, m) # 0 }
  IN  IF starts = {} THEN <<>>
      ELSE LET a == CHOOSE m \in starts : \A o \in starts : m <= o
               z == RunLast(t, BodyStart(t, a))
           IN  <<[m \in 1..(z - a + 1) |-> t[a + m - 1]]>> \o UrlSubstrings(t, z + 1)

\* C8: a reply that does not decode as JSON yields the first 10 URL substrings
\* of its text in their order, and the empty list when there is none.
C8_FallbackExtraction ==
  (DiscoverDone /\ Delivered(1) /\ ~Decodes(1)) =>
     related_books = Refs(FirstN(UrlSubstrings(Text(1), 1), UrlCap))

\* a text that is not JSON and holds more than 10 URLs, one of them ended by
\* a quote, has been scanned
C8_Witness ==
  /\ DiscoverDone
  /\ Delivered(1) /\ ~Decodes(1)
  /\ Len(UrlSubstrings(Text(1), 1)) > UrlCap
  /\ \E i \in 1..Len(Text(1)) : Text(1)[i] = QT
  /\ Len(related_books) = UrlCap

DiscoveredUrls == [i \in 1..Len(related_books) |-> StrVal(related_books[i].url)]

\* C9: the Detail and the Review prompt embed the URLs of the Discover result
\* in order; the Recommend prompt comes after the Detail stage and embeds the
\* Detail payload, which no Review outcome changes.
C9_DataFlow ==
  /\ Len(calls) >= 2 =>
       calls[2] = [stage |-> "detail", embed |-> JsonDumps(ListVal(DiscoveredUrls))]
  /\ Len(calls) >= 3 =>
       calls[3] = [stage |-> "review", embed |-> calls[2].embed]
  /\ Len(calls) >= 4 =>
       /\ DetailDone
       /\ calls[4] = [stage |-> "recommend", embed |-> JsonDumps(book_details)]
  /\ pc = "completed" =>
       /\ Len(calls) = 4
       /\ shown.details = book_details
       /\ JsonLoads(calls[4].embed).val = shown.details

\* a completed run whose Detail and Review payloads differ and are not empty
C9_Witness ==
  /\ pc = "completed"
  /\ book_details # reviews
  /\ book_details.items # <<>>
  /\ reviews.items # <<>>

\* C10: the calls are Discover, Detail, Review, Recommend in this order, each
\* at most once; 4 calls in a completed run, 1 in a halted one.
C10_OneCallPerStage ==
  /\ Len(calls) <= 4
  /\ \A i \in 1..Len(calls) : calls[i].stage = StageOrder[i]
  /\ pc = "completed" => Len(calls) = 4
  /\ pc = "halted" => Len(calls) = 1
  /\ pc \in {"detail", "review", "recommend"} =>
       pc = StageOrder[Len(calls) + 1]

\* a completed run in which the Detail and the Review call both failed
C10_Witness ==
  /\ pc = "completed"
  /\ ~Delivered(2)
  /\ ~Delivered(3)
  /\ Len(calls) = 4

=============================================================================
